---- MODULE Spec2Model ----
(***************************************************************************)
(* Incremental (Hoeffding) decision tree classifier of creme:              *)
(* creme/tree/decision/tree.py, with the Leaf / Branch / split enumerator  *)
(* collaborators it calls (leaf.py, splitting.py, criteria.py, proba).     *)
(*                                                                         *)
(* Encodings.                                                              *)
(*  - A Python value is a record [t |-> type name, v |-> payload]: the     *)
(*    payload of an int/float is the number, of a bool 1 (True) or 0       *)
(*    (False), of a str the index of the text, of None 0.                  *)
(*  - An example x is a dict: a sequence of <<feature, value>> pairs in    *)
(*    insertion order, feature names distinct.                             *)
(*  - A real number is a fraction <<numerator, denominator>>,              *)
(*    denominator > 0.  The confidence delta is carried as the fraction    *)
(*    ln(1/delta), the only form in which the Hoeffding bound uses it.     *)
(*  - The tree is a function from heap positions to nodes: the root is at  *)
(*    1, the left child of p at 2p and the right child at 2p+1.            *)
(***************************************************************************)
EXTENDS Integers, Sequences, FiniteSets, TLC

VARIABLES
    params,   \* the arguments the constructor was called with
    self,     \* the attributes __init__ stores on the tree
    nodes,    \* self.root and everything below it: position -> node
    last,     \* the most recent call on the tree and its outcome
    stream,   \* what the environment may feed (xs, ys), ask (queries), how often
    nfit,     \* number of fit_one calls so far
    readers   \* per thread, where its predict_proba_one call stands

vars == <<params, self, nodes, last, stream, nfit, readers>>

-----------------------------------------------------------------------------
(* Bounds of the model *)

MaxFits == 7
MaxFitsDepth == 6
MaxFitsSplit == 5
MaxFitsTypes == 4
MaxFitsConfig == 4
MaxFitsHist == 4
MaxFitsReaders == 3
MaxFitsTie == 5

-----------------------------------------------------------------------------
(* Fractions *)

Abs(n) == IF n < 0 THEN -n ELSE n

RECURSIVE Gcd(_, _)
Gcd(a, b) == IF b = 0 THEN a ELSE Gcd(b, a % b)

Frac(n, d) ==
    LET g == Gcd(Abs(n), Abs(d))
        s == IF d < 0 THEN -1 ELSE 1
    IN  IF g = 0 THEN <<0, 1>> ELSE <<(s * n) \div g, (s * d) \div g>>

Zero == <<0, 1>>
FSub(a, b) == Frac(a[1] * b[2] - b[1] * a[2], a[2] * b[2])
FAdd(a, b) == Frac(a[1] * b[2] + b[1] * a[2], a[2] * b[2])
FLess(a, b) == a[1] * b[2] < b[1] * a[2]
FLeq(a, b) == a[1] * b[2] <= b[1] * a[2]

-----------------------------------------------------------------------------
(* Python values and examples *)

Labels == {"a", "b"}

PyInt(n) == [t |-> "int", v |-> n]
PyFloat(n) == [t |-> "float", v |-> n]
PyBool(b) == [t |-> "bool", v |-> IF b THEN 1 ELSE 0]
PyStr(i) == [t |-> "str", v |-> i]
PyNone == [t |-> "NoneType", v |-> 0]

\* isinstance(value, numbers.Number): bool is a subclass of int, and int is
\* registered as numbers.Integral, so True and False are Numbers.
IsNumber(value) == value.t \in {"int", "float", "bool"}

\* isinstance(value, (str, bool))
IsStrOrBool(value) == value.t \in {"str", "bool"}

\* Python's ==: numbers compare by value (True == 1), everything else by type
\* and payload
PyEq(a, b) ==
    IF IsNumber(a) /\ IsNumber(b) THEN a.v = b.v ELSE a = b

Has(x, f) == \E i \in 1..Len(x) : x[i][1] = f
Get(x, f) == x[CHOOSE i \in 1..Len(x) : x[i][1] = f][2]

\* <<Op(1), ..., Op(n)>>
MapSeq(n, Op(_)) ==
    LET RECURSIVE Go(_)
        Go(i) == IF i = 0 THEN << >> ELSE Append(Go(i - 1), Op(i))
    IN  Go(n)

-----------------------------------------------------------------------------
(* proba.Multinomial: the target distribution, label -> count, over the     *)
(* labels "a" and "b"                                                      *)

EmptyDist == [a |-> 0, b |-> 0]

DistUpdate(d, y) == [d EXCEPT ![y] = @ + 1]

DistAdd(d, e) == [a |-> d.a + e.a, b |-> d.b + e.b]

Total(d) == d.a + d.b

SumSquares(d) == d.a * d.a + d.b * d.b

\* iteration over a distribution yields the labels it has observed
Observed(d) == {c \in Labels : d[c] > 0}

\* pmf(label): count / total, 0 on an empty distribution
Pmf(d, c) == IF Total(d) = 0 THEN Zero ELSE Frac(d[c], Total(d))

-----------------------------------------------------------------------------
(* criteria.gini_impurity and the gain of a binary partition *)

\* 1 - sum of pmf(label)^2
GiniImpurity(d) ==
    LET t == Total(d)
    IN  IF t = 0 THEN <<1, 1>> ELSE Frac(t * t - SumSquares(d), t * t)

\* total(d) * impurity(d), the weight a child brings to the average
Weighted(d) ==
    LET t == Total(d)
    IN  IF t = 0 THEN Zero ELSE Frac(t * t - SumSquares(d), t)

\* parent impurity minus the weighted average of the child impurities, the
\* children weighing in proportion to their totals
GainOf(impurity, weighted, total) ==
    FSub(impurity, Frac(weighted[1], weighted[2] * total))

Gain(parent, left, right) ==
    GainOf(GiniImpurity(parent), FAdd(Weighted(left), Weighted(right)),
           Total(left) + Total(right))

-----------------------------------------------------------------------------
(* splitting.HistSplitEnum and splitting.CategoricalSplitEnum *)

NoBins == << >>

HistSplitEnum(n_bins, n_splits) ==
    [kind |-> "Hist", n_bins |-> n_bins, n_splits |-> n_splits,
     bins |-> NoBins, cats |-> << >>]

CategoricalSplitEnum ==
    [kind |-> "Categorical", n_bins |-> 0, n_splits |-> 0,
     bins |-> NoBins, cats |-> << >>]

InsertAt(s, i, e) == SubSeq(s, 1, i - 1) \o <<e>> \o SubSeq(s, i, Len(s))

\* merge the adjacent pair of buckets whose merged value range is smallest
MergeBins(bins) ==
    LET Cost(i) == bins[i + 1].right - bins[i].left
        i == CHOOSE k \in 1..(Len(bins) - 1) :
                 \A j \in 1..(Len(bins) - 1) :
                     Cost(k) < Cost(j) \/ (Cost(k) = Cost(j) /\ k <= j)
        merged == [left |-> bins[i].left, right |-> bins[i + 1].right,
                   counts |-> DistAdd(bins[i].counts, bins[i + 1].counts)]
    IN  SubSeq(bins, 1, i - 1) \o <<merged>> \o SubSeq(bins, i + 2, Len(bins))

HistUpdate(h, v, y) ==
    LET bins == h.bins
        hit == {i \in 1..Len(bins) : bins[i].left <= v /\ v <= bins[i].right}
    IN  IF hit # {}
        THEN LET i == CHOOSE k \in hit : TRUE
             IN  [h EXCEPT !.bins[i].counts = DistUpdate(@, y)]
        ELSE LET at == 1 + Cardinality({i \in 1..Len(bins) : bins[i].right < v})
                 fresh == [left |-> v, right |-> v, counts |-> DistUpdate(EmptyDist, y)]
                 grown == InsertAt(bins, at, fresh)
             IN  [h EXCEPT !.bins =
                     IF Len(grown) > h.n_bins /\ Len(grown) >= 2
                     THEN MergeBins(grown) ELSE grown]

CategoricalUpdate(e, value, y) ==
    LET hit == {i \in 1..Len(e.cats) : PyEq(e.cats[i].value, value)}
    IN  IF hit # {}
        THEN LET i == CHOOSE k \in hit : TRUE
             IN  [e EXCEPT !.cats[i].counts = DistUpdate(@, y)]
        ELSE [e EXCEPT !.cats =
                 Append(@, [value |-> value, counts |-> DistUpdate(EmptyDist, y)])]

\* sum of the label counts of the entries of s selected by keep
SumCounts(s, keep(_)) ==
    LET RECURSIVE Go(_)
        Go(i) == IF i = 0 THEN EmptyDist
                 ELSE IF keep(i) THEN DistAdd(s[i].counts, Go(i - 1)) ELSE Go(i - 1)
    IN  Go(Len(s))

NoValue == [t |-> "none", v |-> 0]

NoSplit == [feature |-> "", kind |-> "none", at |-> Zero, cat |-> NoValue]

NoCandidate ==
    [split |-> NoSplit, gain |-> Zero, left |-> EmptyDist, right |-> EmptyDist]

\* the first candidate of a non-empty sequence with the largest gain
FirstBest(cands) ==
    cands[CHOOSE k \in 1..Len(cands) :
              \A j \in 1..Len(cands) :
                  FLess(cands[j].gain, cands[k].gain)
                  \/ (cands[j].gain = cands[k].gain /\ k <= j)]

\* n_splits thresholds evenly spaced from the first bucket midpoint to the last
HistThreshold(h, k) ==
    LET lo2 == h.bins[1].left + h.bins[1].right
        hi2 == h.bins[Len(h.bins)].left + h.bins[Len(h.bins)].right
    IN  IF h.n_splits = 1 THEN Frac(lo2, 2)
        ELSE Frac((h.n_splits - 1) * lo2 + k * (hi2 - lo2), 2 * (h.n_splits - 1))

Candidate(split, parent, left, right) ==
    [split |-> split, gain |-> Gain(parent, left, right),
     left |-> left, right |-> right]

\* the cumulative weight at or below the threshold against the weight above
HistCandidateAt(h, f, parent, at) ==
    LET Below(i) == FLeq(Frac(h.bins[i].left + h.bins[i].right, 2), at)
        Above(i) == ~Below(i)
    IN  Candidate([feature |-> f, kind |-> "le", at |-> at, cat |-> NoValue],
                  parent, SumCounts(h.bins, Below), SumCounts(h.bins, Above))

HistCandidate(h, f, parent, k) == HistCandidateAt(h, f, parent, HistThreshold(h, k))

\* one category against all the others
CategoricalCandidate(e, f, parent, k) ==
    LET Is(i) == i = k
        IsNot(i) == i # k
    IN  Candidate([feature |-> f, kind |-> "eq", at |-> Zero, cat |-> e.cats[k].value],
                  parent, SumCounts(e.cats, Is), SumCounts(e.cats, IsNot))

\* best_split: the best candidate of one feature, NoCandidate if fewer than
\* two distinct values were observed
BestSplit(e, f, parent) ==
    IF e.kind = "Hist"
    THEN IF Len(e.bins) < 2 \/ e.n_splits < 1 THEN NoCandidate
         ELSE LET Nth(k) == HistCandidate(e, f, parent, k - 1)
              IN  FirstBest(MapSeq(e.n_splits, Nth))
    ELSE IF Len(e.cats) < 2 THEN NoCandidate
         ELSE LET Nth(k) == CategoricalCandidate(e, f, parent, k)
              IN  FirstBest(MapSeq(Len(e.cats), Nth))

-----------------------------------------------------------------------------
(* BaseDecisionTree.__init__ *)

CRITERIA_CLF == {"gini", "entropy"}

\* faulty variant: patience and min_child_samples are stored under each other's name
ConstructCountsSwapped(p) ==
    [criterion |-> p.criterion,
     patience |-> p.min_child_samples,
     max_depth |-> p.max_depth,
     min_split_gain |-> p.min_split_gain,
     min_child_samples |-> p.patience,
     confidence |-> p.confidence,
     tie_threshold |-> p.tie_threshold,
     n_split_points |-> p.n_split_points,
     max_bins |-> p.max_bins,
     curtail_under |-> p.curtail_under]

\* faulty variant: min_split_gain and tie_threshold are stored under each other's name
ConstructThresholdsSwapped(p) ==
    [criterion |-> p.criterion,
     patience |-> p.patience,
     max_depth |-> p.max_depth,
     min_split_gain |-> p.tie_threshold,
     min_child_samples |-> p.min_child_samples,
     confidence |-> p.confidence,
     tie_threshold |-> p.min_split_gain,
     n_split_points |-> p.n_split_points,
     max_bins |-> p.max_bins,
     curtail_under |-> p.curtail_under]

\* faulty variant: tie_threshold is assigned from min_split_gain
ConstructTiePasted(p) ==
    [criterion |-> p.criterion,
     patience |-> p.patience,
     max_depth |-> p.max_depth,
     min_split_gain |-> p.min_split_gain,
     min_child_samples |-> p.min_child_samples,
     confidence |-> p.confidence,
     tie_threshold |-> p.min_split_gain,
     n_split_points |-> p.n_split_points,
     max_bins |-> p.max_bins,
     curtail_under |-> p.curtail_under]

\* faulty variant: patience and max_depth are stored under each other's name
ConstructPatienceDepthSwapped(p) ==
    [criterion |-> p.criterion,
     patience |-> p.max_depth,
     max_depth |-> p.patience,
     min_split_gain |-> p.min_split_gain,
     min_child_samples |-> p.min_child_samples,
     confidence |-> p.confidence,
     tie_threshold |-> p.tie_threshold,
     n_split_points |-> p.n_split_points,
     max_bins |-> p.max_bins,
     curtail_under |-> p.curtail_under]

\* the assignments of __init__: each argument is stored under its own name
Construct(p) ==
    [criterion |-> p.criterion,
     patience |-> p.patience,
     max_depth |-> p.max_depth,
     min_split_gain |-> p.min_split_gain,
     min_child_samples |-> p.min_child_samples,
     confidence |-> p.confidence,
     tie_threshold |-> p.tie_threshold,
     n_split_points |-> p.n_split_points,
     max_bins |-> p.max_bins,
     curtail_under |-> p.curtail_under]

\* faulty variant: a new leaf starts from a distribution that holds a sample
MakeLeafDistSeeded == [a |-> 1, b |-> 0]

\* _make_leaf_dist
MakeLeafDist == EmptyDist

Leaf(depth, target_dist) ==
    [kind |-> "Leaf", depth |-> depth, target_dist |-> target_dist,
     n_samples |-> 0, last_attempt |-> 0, split_enums |-> << >>,
     split |-> NoSplit]

\* faulty variant: the root is created one level down
RootLeafDeep == Leaf(1, EmptyDist)

\* self.root = leaf.Leaf(depth=0, tree=self, target_dist=proba.Multinomial())
RootLeaf == Leaf(0, EmptyDist)

Root == 1
None == 0
Left(p) == 2 * p
Right(p) == 2 * p + 1

-----------------------------------------------------------------------------
(* DecisionTreeClassifier._get_split_enum *)

\* faulty variant: max_bins and n_split_points are passed for each other
GetSplitEnumSwapped(tree, value) ==
    IF IsNumber(value)
    THEN [raised |-> FALSE,
          enum |-> HistSplitEnum(tree.n_split_points, tree.max_bins)]
    ELSE IF IsStrOrBool(value)
    THEN [raised |-> FALSE, enum |-> CategoricalSplitEnum]
    ELSE [raised |-> TRUE, enum |-> CategoricalSplitEnum]

GetSplitEnum(tree, value) ==
    IF IsNumber(value)
    THEN [raised |-> FALSE,
          enum |-> HistSplitEnum(tree.max_bins, tree.n_split_points)]
    ELSE IF IsStrOrBool(value)
    THEN [raised |-> FALSE, enum |-> CategoricalSplitEnum]
    ELSE [raised |-> TRUE, enum |-> CategoricalSplitEnum]

-----------------------------------------------------------------------------
(* Branch: routing *)

\* the split predicate on x; a feature x lacks, or a value the predicate
\* cannot compare, does not satisfy it
SplitTest(split, x) ==
    /\ Has(x, split.feature)
    /\ IF split.kind = "le"
       THEN IsNumber(Get(x, split.feature))
            /\ FLeq(<<Get(x, split.feature).v, 1>>, split.at)
       ELSE PyEq(Get(x, split.feature), split.cat)

NextNode(nd, p, x) == IF SplitTest(nd[p].split, x) THEN Left(p) ELSE Right(p)

LeafOf(path) == path[Len(path)]

\* node.path(x): the nodes from the root to the leaf x is routed to
Path(nd, x) ==
    LET RECURSIVE From(_)
        From(p) == IF nd[p].kind = "Leaf" THEN <<p>>
                   ELSE <<p>> \o From(NextNode(nd, p, x))
    IN  From(Root)

-----------------------------------------------------------------------------
(* Leaf.update: steps 1 and 2, the statistics *)

\* what feeding a value to an enumerator does.  A histogram orders its
\* buckets by value; a value that is no number cannot be ordered, and the
\* call then either raises TypeError or leaves the histogram as it is
\* (fails), which of the two being the enumerator's choice.
EnumAccepts(e, value) == e.kind = "Categorical" \/ IsNumber(value)

EnumUpdate(e, value, y) ==
    IF e.kind = "Hist" THEN HistUpdate(e, value.v, y)
    ELSE CategoricalUpdate(e, value, y)

NoError == "none"

EnumsStart(leaf) ==
    [enums |-> leaf.split_enums, error |-> NoError, bad |-> NoValue,
     created |-> << >>, drifted |-> FALSE]

\* for i, xi in x.items(): look the enumerator of feature i up, creating it
\* with tree._get_split_enum(xi) when the leaf has none, and update it
RECURSIVE UpdateEnums(_, _, _, _, _, _)
UpdateEnums(tree, acc, x, y, i, fails) ==
    IF i > Len(x) \/ acc.error # NoError THEN acc
    ELSE
    LET f == x[i][1]
        value == x[i][2]
        known == {k \in 1..Len(acc.enums) : acc.enums[k].feature = f}
    IN  IF known # {}
        THEN LET k == CHOOSE j \in known : TRUE
                 e == acc.enums[k].enum
                 drift == \/ e.kind = "Hist" /\ ~IsNumber(value)
                          \/ e.kind = "Categorical" /\ value.t # "str"
                 seen == [acc EXCEPT !.drifted = @ \/ drift]
             IN  IF EnumAccepts(e, value)
                 THEN UpdateEnums(tree,
                         [seen EXCEPT !.enums[k].enum = EnumUpdate(e, value, y)],
                         x, y, i + 1, fails)
                 ELSE IF fails
                 THEN [seen EXCEPT !.error = "TypeError", !.bad = value]
                 ELSE UpdateEnums(tree, seen, x, y, i + 1, fails)
        ELSE LET got == GetSplitEnum(tree, value)
             IN  IF got.raised
                 THEN [acc EXCEPT !.error = "ValueError", !.bad = value]
                 ELSE UpdateEnums(tree,
                         [acc EXCEPT
                            !.enums = Append(@, [feature |-> f,
                                                 enum |-> EnumUpdate(got.enum, value, y)]),
                            !.created = Append(@, [feature |-> f, value |-> value,
                                                   kind |-> got.enum.kind])],
                         x, y, i + 1, fails)

-----------------------------------------------------------------------------
(* Leaf.update: steps 3 to 6, the split decision *)

\* epsilon^2 = R^2 ln(1/confidence) / (2 n), R = 1 for gini
HoeffdingSq(tree, n) == Frac(tree.confidence[1], tree.confidence[2] * 2 * n)

Square(a) == <<a[1] * a[1], a[2] * a[2]>>

\* d > epsilon, epsilon >= 0
ExceedsBound(d, epsSq) == d[1] > 0 /\ FLess(epsSq, Square(d))

\* epsilon < threshold, epsilon >= 0
BoundUnder(epsSq, threshold) == threshold[1] > 0 /\ FLess(epsSq, Square(threshold))

IsCandidate(c) == c.split.kind # "none"

BestIndex(cands) ==
    CHOOSE k \in 1..Len(cands) :
        \A j \in 1..Len(cands) :
            FLess(cands[j].gain, cands[k].gain)
            \/ (cands[j].gain = cands[k].gain /\ k <= j)

WithoutIndex(s, k) == SubSeq(s, 1, k - 1) \o SubSeq(s, k + 1, Len(s))

NoAttempt ==
    [attempted |-> FALSE, candidates |-> 0, best |-> NoCandidate,
     G1 |-> Zero, G2 |-> Zero, n |-> 0, epsSq |-> Zero, authorized |-> FALSE]

\* the gate of step 3
MayAttempt(tree, depth, n, last_attempt) ==
    ~(depth >= tree.max_depth \/ n - last_attempt < tree.patience)

\* the test of step 6
Authorized(tree, best, G1, G2, epsSq) ==
    /\ ExceedsBound(FSub(G1, G2), epsSq) \/ BoundUnder(epsSq, tree.tie_threshold)
    /\ FLeq(tree.min_split_gain, G1)
    /\ Total(best.left) >= tree.min_child_samples
    /\ Total(best.right) >= tree.min_child_samples

\* step 6 on the ranked candidates
Decide(tree, best, G2, candidates, n, epsSq) ==
    [attempted |-> TRUE, candidates |-> candidates, best |-> best,
     G1 |-> best.gain, G2 |-> G2, n |-> n, epsSq |-> epsSq,
     authorized |-> Authorized(tree, best, best.gain, G2, epsSq)]

\* G2: the best gain of the other candidates, 0 when there is none
SecondGain(rest) == IF Len(rest) = 0 THEN Zero ELSE rest[BestIndex(rest)].gain

Rank(tree, cands, b, n, epsSq) ==
    Decide(tree, cands[b], SecondGain(WithoutIndex(cands, b)), Len(cands), n, epsSq)

AttemptOn(tree, cands, n, epsSq) ==
    IF Len(cands) = 0
    THEN [NoAttempt EXCEPT !.attempted = TRUE, !.n = n, !.epsSq = epsSq]
    ELSE Rank(tree, cands, BestIndex(cands), n, epsSq)

\* steps 4 to 6 for a leaf with n samples, target distribution dist and the
\* enumerators enums: the best split of every feature, ranked by gain
Attempt(tree, dist, enums, n) ==
    LET Best(k) == BestSplit(enums[k].enum, enums[k].feature, dist)
    IN  AttemptOn(tree, SelectSeq(MapSeq(Len(enums), Best), IsCandidate),
                  n, HoeffdingSq(tree, n))

-----------------------------------------------------------------------------
(* Leaf.update and Branch.update: one fit_one call *)

Branch(leaf, dist, n, split) ==
    [kind |-> "Branch", depth |-> leaf.depth, target_dist |-> dist,
     n_samples |-> n, last_attempt |-> n, split_enums |-> << >>,
     split |-> split]

Report(p, acc, att, split) ==
    [leaf |-> p, error |-> acc.error, bad |-> acc.bad, created |-> acc.created,
     drifted |-> acc.drifted, attempt |-> att, split |-> split]

\* step 7, or the leaf staying a leaf, once the attempt is decided
Decided(nd, p, counted, acc, att) ==
    IF ~att.authorized
    THEN [nodes |-> [nd EXCEPT ![p] = [counted EXCEPT !.last_attempt = counted.n_samples]],
          report |-> Report(p, acc, att, FALSE)]
    ELSE [nodes |->
             (Left(p) :> Leaf(counted.depth + 1, MakeLeafDist))
             @@ (Right(p) :> Leaf(counted.depth + 1, MakeLeafDist))
             @@ [nd EXCEPT ![p] = Branch(counted, counted.target_dist,
                                         counted.n_samples, att.best.split)],
          report |-> Report(p, acc, att, TRUE)]

\* Leaf.update on the leaf at p, its statistics (acc) already updated
LeafUpdate(tree, nd, p, dist, acc) ==
    LET leaf == nd[p]
        n == leaf.n_samples + 1
        counted == [leaf EXCEPT !.target_dist = dist, !.split_enums = acc.enums,
                                !.n_samples = n]
    IN  IF acc.error # NoError
        THEN [nodes |-> [nd EXCEPT ![p] = [leaf EXCEPT !.target_dist = dist,
                                                       !.split_enums = acc.enums]],
              report |-> Report(p, acc, NoAttempt, FALSE)]
        ELSE IF ~MayAttempt(tree, leaf.depth, n, leaf.last_attempt)
        THEN [nodes |-> [nd EXCEPT ![p] = counted],
              report |-> Report(p, acc, NoAttempt, FALSE)]
        ELSE Decided(nd, p, counted, acc, Attempt(tree, dist, acc.enums, n))

\* Branch.update down to the leaf at p, then Leaf.update: the target
\* distribution first, then the enumerators, then the count and the decision
UpdateAt(tree, nd, p, x, y, fails) ==
    LeafUpdate(tree, nd, p, DistUpdate(nd[p].target_dist, y),
               UpdateEnums(tree, EnumsStart(nd[p]), x, y, 1, fails))

\* the outcome of self.root.update(x, y): the nodes afterwards and what
\* happened on the way.  fails: see EnumAccepts.
Update(tree, nd, x, y, fails) ==
    UpdateAt(tree, nd, LeafOf(Path(nd, x)), x, y, fails)

-----------------------------------------------------------------------------
(* DecisionTreeClassifier.predict_proba_one *)

\* faulty variant: zip in place of zip_longest, the last node gets no pair
PairwiseZip(s) ==
    [i \in 1..(Len(s) - 1) |-> <<s[i], s[i + 1]>>]

\* pairwise: s -> (s0, s1), (s1, s2), ..., (sn, None)
Pairwise(s) ==
    [i \in 1..Len(s) |-> <<s[i], IF i < Len(s) THEN s[i + 1] ELSE None>>]

\* the loop: the node of the first pair whose child is None or has fewer
\* than curtail_under samples
AnswerIndex(tree, nd, pairs) ==
    CHOOSE i \in 1..Len(pairs) :
        /\ pairs[i][2] = None \/ nd[pairs[i][2]].n_samples < tree.curtail_under
        /\ \A j \in 1..(i - 1) :
               ~(pairs[j][2] = None \/ nd[pairs[j][2]].n_samples < tree.curtail_under)

\* faulty variant: no curtailment, the leaf always answers
AnswerNodeLeaf(tree, nd, x) ==
    LET path == Path(nd, x) IN path[Len(path)]

\* faulty variant: the loop breaks on child.n_samples <= curtail_under
AnswerNodeInclusive(tree, nd, x) ==
    LET path == Path(nd, x)
        Stop(i) == i = Len(path) \/ nd[path[i + 1]].n_samples <= tree.curtail_under
    IN  path[CHOOSE i \in 1..Len(path) : Stop(i) /\ \A j \in 1..(i - 1) : ~Stop(j)]

AnswerNode(tree, nd, x) ==
    LET Stop(pairs) == pairs[AnswerIndex(tree, nd, pairs)][1]
    IN  Stop(Pairwise(Path(nd, x)))

\* {c: node.target_dist.pmf(c) for c in node.target_dist}
PmfOf(dist) == [c \in Observed(dist) |-> Pmf(dist, c)]

PredictProbaOne(tree, nd, x) == PmfOf(nd[AnswerNode(tree, nd, x)].target_dist)

\* faulty variant: walking the path counts as a visit of each node on it
AfterPredictVisiting(nd, x) ==
    LET path == Path(nd, x)
        on == {path[i] : i \in 1..Len(path)}
    IN  [p \in DOMAIN nd |->
            IF p \in on THEN [nd[p] EXCEPT !.n_samples = @ + 1] ELSE nd[p]]

\* predict_proba_one assigns to no attribute of the tree or of a node
AfterPredict(nd, x) == nd

-----------------------------------------------------------------------------
(* The calls *)

NoResult == [c \in {} |-> Zero]

NoCall ==
    [op |-> "init", x |-> << >>, y |-> "", leaf |-> None, error |-> NoError,
     bad |-> NoValue, created |-> << >>, drifted |-> FALSE,
     attempt |-> NoAttempt, split |-> FALSE,
     answer |-> None, result |-> NoResult, again |-> FALSE, printed |-> << >>]

\* the threads that call predict_proba_one
Threads == {"t1", "t2"}

\* no call of predict_proba_one yet
Idle ==
    [pc |-> "idle", x |-> << >>, i |-> 0, node |-> None, result |-> NoResult,
     at |-> 0, overlapped |-> FALSE]

NoReaders == [t \in Threads |-> Idle]

\* there is a tree to call: __init__ returned
Exists == Root \in DOMAIN nodes

\* the record of a fit_one call
FitReport(out, x, y) ==
    [NoCall EXCEPT
       !.op = "fit", !.x = x, !.y = y,
       !.leaf = out.report.leaf, !.error = out.report.error,
       !.bad = out.report.bad, !.created = out.report.created,
       !.drifted = out.report.drifted,
       !.attempt = out.report.attempt, !.split = out.report.split]

\* faulty variant: update returns the node it ended at, not the node it was
\* called on, and fit_one stores that as the root
FittedReturnsLeaf(out, x, y) ==
    /\ nodes' = LET p == out.report.leaf
                IN  IF p = Root THEN out.nodes
                    ELSE IF out.report.split
                    THEN (Root :> out.nodes[p])
                         @@ (Left(Root) :> out.nodes[Left(p)])
                         @@ (Right(Root) :> out.nodes[Right(p)])
                    ELSE (Root :> out.nodes[p])
    /\ last' = [FitReport(out, x, y) EXCEPT !.leaf = Root]

\* faulty variant: the leaves below the root share one distribution object,
\* so the label counted in the routed leaf is counted in all of them
FittedSharedDist(out, x, y) ==
    /\ nodes' = [p \in DOMAIN out.nodes |->
                    IF /\ out.nodes[p].kind = "Leaf"
                       /\ p \notin {Root, out.report.leaf}
                    THEN [out.nodes[p] EXCEPT !.target_dist = DistUpdate(@, y)]
                    ELSE out.nodes[p]]
    /\ last' = FitReport(out, x, y)

\* what a fit_one call leaves behind
Fitted(out, x, y) ==
    /\ nodes' = out.nodes
    /\ last' = FitReport(out, x, y)

\* fit_one(x, y): self.root = self.root.update(x, y)
FitOne(x, y, fails) ==
    /\ Exists
    /\ nfit < stream.fits
    /\ Fitted(Update(self, nodes, x, y, fails), x, y)
    /\ nfit' = nfit + 1
    /\ UNCHANGED <<params, self, stream, readers>>

PredictOne(x) ==
    /\ Exists
    /\ nodes' = AfterPredict(nodes, x)
    /\ last' = [NoCall EXCEPT
                  !.op = "predict", !.x = x,
                  !.answer = AnswerNode(self, nodes, x),
                  !.result = PredictProbaOne(self, nodes, x),
                  !.again = (last.op = "predict" /\ last.x = x)]
    /\ UNCHANGED <<params, self, stream, nfit, readers>>

\* whether an enumerator fails on a value it cannot order is open only when
\* x carries a value that is no number
Fit ==
    \E x \in stream.xs, y \in stream.ys :
        \E fails \in IF \A i \in 1..Len(x) : IsNumber(x[i][2]) THEN {FALSE} ELSE BOOLEAN :
            FitOne(x, y, fails)

Predict == \E x \in stream.queries : PredictOne(x)

Next == Fit \/ Predict

-----------------------------------------------------------------------------
(* predict_proba_one step by step, called from several threads, and         *)
(* debug_one                                                               *)

\* the call of thread t has begun and not returned
Running(rs, t) == rs[t].pc \in {"walk", "return"}

\* predict_proba_one(x) is called: nothing of the path is computed yet, the
\* path being a generator.  at: the number of fit_one calls before the call;
\* overlapped: another thread's call was running at some time of this one.
Call(t, x) ==
    /\ Exists
    /\ ~Running(readers, t)
    /\ readers' = [u \in Threads |->
                      IF u = t
                      THEN [Idle EXCEPT !.pc = "walk", !.x = x, !.at = nfit,
                                        !.overlapped = \E v \in Threads \ {t} :
                                                          Running(readers, v)]
                      ELSE IF Running(readers, u)
                      THEN [readers[u] EXCEPT !.overlapped = TRUE]
                      ELSE readers[u]]
    /\ UNCHANGED <<params, self, nodes, last, stream, nfit>>

\* faulty variant: the loop variable is an attribute of the tree, one for all
\* the threads
AdvanceSharedNode(rs, t, tree, nd) ==
    LET r == rs[t]
        pair == Pairwise(Path(nd, r.x))[r.i + 1]
        stop == pair[2] = None \/ nd[pair[2]].n_samples < tree.curtail_under
    IN  [u \in DOMAIN rs |->
            IF u = t
            THEN [r EXCEPT !.i = r.i + 1, !.node = pair[1],
                           !.pc = IF stop THEN "return" ELSE "walk"]
            ELSE [rs[u] EXCEPT !.node = pair[1]]]

\* one iteration of the for loop in thread t: the next pair is bound to the
\* local names node and child, and the condition decides the break
Advance(rs, t, tree, nd) ==
    LET r == rs[t]
        pair == Pairwise(Path(nd, r.x))[r.i + 1]
        stop == pair[2] = None \/ nd[pair[2]].n_samples < tree.curtail_under
    IN  [rs EXCEPT ![t] = [r EXCEPT !.i = r.i + 1, !.node = pair[1],
                                    !.pc = IF stop THEN "return" ELSE "walk"]]

Step(t) ==
    /\ readers[t].pc = "walk"
    /\ readers' = Advance(readers, t, self, nodes)
    /\ UNCHANGED <<params, self, nodes, last, stream, nfit>>

\* the return statement of thread t
Return(t) ==
    /\ readers[t].pc = "return"
    /\ readers' = [readers EXCEPT
                      ![t].pc = "done",
                      ![t].result = PmfOf(nodes[readers[t].node].target_dist)]
    /\ nodes' = AfterPredict(nodes, readers[t].x)
    /\ last' = [NoCall EXCEPT
                  !.op = "predict", !.x = readers[t].x,
                  !.answer = readers[t].node,
                  !.result = PmfOf(nodes[readers[t].node].target_dist)]
    /\ UNCHANGED <<params, self, stream, nfit>>

\* what debug_one prints: per Branch of the path its split, after 'not' when
\* x satisfies it, and the target distribution of the Leaf
Printed(nd, x) ==
    LET path == Path(nd, x)
    IN  [i \in 1..Len(path) |->
            IF nd[path[i]].kind = "Leaf" THEN <<"dist", nd[path[i]].target_dist>>
            ELSE IF SplitTest(nd[path[i]].split, x)
            THEN <<"not", nd[path[i]].split>>
            ELSE <<"", nd[path[i]].split>>]

DebugOne(x) ==
    /\ Exists
    /\ last' = [NoCall EXCEPT !.op = "debug", !.x = x, !.printed = Printed(nodes, x)]
    /\ UNCHANGED <<params, self, nodes, stream, nfit, readers>>

\* the caller lets no fit_one run beside a predict_proba_one
FitAlone == (\A t \in Threads : ~Running(readers, t)) /\ Fit

Calls == \E t \in Threads, x \in stream.queries : Call(t, x)

Steps == \E t \in Threads : Step(t)

Returns == \E t \in Threads : Return(t)

Debug == \E x \in stream.queries : DebugOne(x)

NextReaders == FitAlone \/ Calls \/ Steps \/ Returns \/ Debug

Created(p, s) ==
    /\ params = p
    /\ stream = s
    /\ self = Construct(p)
    /\ nodes = (Root :> RootLeaf)
    /\ last = NoCall
    /\ nfit = 0
    /\ readers = NoReaders

\* no object: __init__ raised
NoTree == << >>

\* self.criterion = CRITERIA_CLF[criterion] raises KeyError on a name that is
\* no key of the dict; nothing else in __init__ looks at an argument
Raises(p) == p.criterion \notin CRITERIA_CLF

\* DecisionTreeClassifier(**p)
New(p, s) ==
    IF Raises(p)
    THEN /\ params = p
         /\ stream = s
         /\ self = NoTree
         /\ nodes = NoTree
         /\ last = [NoCall EXCEPT !.error = "KeyError"]
         /\ nfit = 0
         /\ readers = NoReaders
    ELSE Created(p, s)

-----------------------------------------------------------------------------
(* Configurations and streams *)

Eager ==
    [criterion |-> "gini", patience |-> 1, max_depth |-> 2,
     min_split_gain |-> Zero, min_child_samples |-> 0,
     confidence |-> <<1, 1>>, tie_threshold |-> <<1, 1>>,
     n_split_points |-> 2, max_bins |-> 3, curtail_under |-> 3]

Numeric(f, S) == {<< <<f, PyInt(v)>> >> : v \in S}

\* one numeric feature, trees that split as soon as two values were seen
Init ==
    \E cu \in {1, 3} :
        Created([Eager EXCEPT !.curtail_under = cu],
                [xs |-> Numeric("f", {1, 2, 3}), ys |-> Labels,
                 queries |-> Numeric("f", {1, 2, 3}), fits |-> MaxFits])

Spec == Init /\ [][Next]_vars

\* the same stream under every kind of max_depth
InitDepth ==
    \E md \in {-1, 0, 1, 2} :
        Created([Eager EXCEPT !.max_depth = md, !.curtail_under = 1],
                [xs |-> Numeric("f", {1, 2, 3}), ys |-> Labels,
                 queries |-> Numeric("f", {1, 3}), fits |-> MaxFitsDepth])

SpecDepth == InitDepth /\ [][Next]_vars

\* two features, a numeric and a textual one
TwoFeatures ==
    {<< <<"f", PyInt(v)>>, <<"g", PyStr(w)>> >> : v \in {1, 2}, w \in {1, 2}}

SplitStream ==
    [xs |-> TwoFeatures, ys |-> Labels,
     queries |-> {<< <<"f", PyInt(1)>>, <<"g", PyStr(2)>> >>}, fits |-> MaxFitsSplit]

Shallow == [Eager EXCEPT !.max_depth = 1, !.confidence = <<1, 2>>]

\* the Hoeffding test alone, and the tie rule with a floor on the children
BoundPolicies ==
    {[Shallow EXCEPT !.patience = 2, !.tie_threshold = Zero],
     [Shallow EXCEPT !.tie_threshold = <<1, 4>>, !.min_child_samples = 2]}

InitSplit == \E p \in BoundPolicies : Created(p, SplitStream)

SpecSplit == InitSplit /\ [][Next]_vars

\* a minimum gain some splits reach, and one no split reaches
GainPolicies ==
    {[Shallow EXCEPT !.tie_threshold = <<1, 2>>, !.min_split_gain = <<1, 4>>],
     [Shallow EXCEPT !.tie_threshold = <<1, 2>>, !.min_split_gain = <<1, 1>>]}

InitGain == \E p \in GainPolicies : Created(p, SplitStream)

SpecGain == InitGain /\ [][Next]_vars

\* values of every type, for one feature or two
TypedExamples ==
    {<< <<"f", v>> >> : v \in {PyInt(1), PyFloat(2), PyBool(TRUE), PyStr(1), PyNone}}
    \cup {<< <<"f", PyInt(2)>>, <<"g", PyNone>> >>,
          << <<"g", PyStr(1)>>, <<"f", PyBool(FALSE)>> >>}

InitTypes ==
    Created([Eager EXCEPT !.max_depth = 1],
            [xs |-> TypedExamples, ys |-> Labels,
             queries |-> {<< <<"f", PyInt(1)>> >>}, fits |-> MaxFitsTypes])

SpecTypes == InitTypes /\ [][Next]_vars

\* the configurations the documented constraints exclude, one constraint
\* broken in each, and one that meets them all.  A confidence of ln(1/delta)
\* = 0 is delta = 1.
Misconfigured ==
    {[Eager EXCEPT !.criterion = "mse"],
     [Eager EXCEPT !.patience = 0],
     [Eager EXCEPT !.max_bins = 0],
     [Eager EXCEPT !.n_split_points = 0],
     [Eager EXCEPT !.min_split_gain = <<-1, 4>>],
     [Eager EXCEPT !.min_child_samples = -1],
     [Eager EXCEPT !.tie_threshold = <<-1, 2>>],
     [Eager EXCEPT !.confidence = Zero]}

InitConfig ==
    \E p \in Misconfigured \cup {Eager} :
        New(p, [xs |-> Numeric("f", {1, 2}), ys |-> Labels,
                queries |-> Numeric("f", {1}), fits |-> MaxFitsConfig])

SpecConfig == InitConfig /\ [][Next]_vars

\* more distinct values than the histogram has buckets, in a root that never
\* splits and in a tree of depth 1
InitHist ==
    \E mb \in {1, 2}, md \in {0, 1} :
        Created([Eager EXCEPT !.max_depth = md, !.max_bins = mb, !.n_split_points = 3],
                [xs |-> Numeric("f", {1, 2, 4, 7}), ys |-> Labels,
                 queries |-> Numeric("f", {1}), fits |-> MaxFitsHist])

SpecHist == InitHist /\ [][Next]_vars

\* two threads asking about both sides of a tree that splits once
InitReaders ==
    Created([Eager EXCEPT !.max_depth = 1, !.curtail_under = 1],
            [xs |-> Numeric("f", {1, 3}), ys |-> Labels,
             queries |-> Numeric("f", {1, 3}), fits |-> MaxFitsReaders])

SpecReaders == InitReaders /\ [][NextReaders]_vars

\* two features that always carry the same value: their best splits gain
\* the same
Twins == {<< <<"f", PyInt(v)>>, <<"g", PyInt(v)>> >> : v \in {1, 2}}

\* epsilon^2 = 1/(2n) against tie_threshold^2 = 1/4: epsilon < tie_threshold
\* from the third sample on; without and with a floor on the children
TiePolicies ==
    {[Shallow EXCEPT !.confidence = <<1, 1>>, !.tie_threshold = <<1, 2>>],
     [Shallow EXCEPT !.confidence = <<1, 1>>, !.tie_threshold = <<1, 2>>,
                     !.min_child_samples = 2]}

InitTie ==
    \E p \in TiePolicies :
        Created(p, [xs |-> Twins, ys |-> Labels,
                    queries |-> {<< <<"f", PyInt(1)>>, <<"g", PyInt(1)>> >>},
                    fits |-> MaxFitsTie])

\* one more fit_one call was made; Fit is the only action that counts one,
\* and it can whenever the stream has an example left
Fed == Exists /\ nfit < stream.fits /\ nfit' = nfit + 1

\* the stream keeps feeding the tree: while it has examples left, fit_one is
\* called again
SpecTie == InitTie /\ [][Next]_vars /\ WF_nfit(Fed)

-----------------------------------------------------------------------------
(* Properties of predict_proba_one *)

\* the node has at least curtail_under samples
Mature(p) == nodes[p].n_samples >= params.curtail_under

IndexIn(path, p) == CHOOSE i \in 1..Len(path) : path[i] = p

\* C1: predict never answers with a node that has fewer than curtail_under
\* samples when an ancestor of that node on the path of x has at least
\* curtail_under samples.
CurtailmentMonotonicity ==
    last.op = "predict" =>
        LET path == Path(nodes, last.x)
            k == IndexIn(path, last.answer)
        IN  ~(~Mature(last.answer) /\ \E j \in 1..(k - 1) : Mature(path[j]))

\* C1 witness: the leaf of x is immature, an ancestor is mature, and predict
\* answered with the mature ancestor
CurtailedToMatureAncestor ==
    /\ last.op = "predict"
    /\ LET path == Path(nodes, last.x)
       IN  /\ last.answer # LeafOf(path)
           /\ ~Mature(LeafOf(path))
           /\ Mature(last.answer)
           /\ Observed(nodes[last.answer].target_dist) # {}

\* the deepest node of the path with at least curtail_under samples, the root
\* when the path has none
DeepestMature(path) ==
    LET mature == {i \in 1..Len(path) : Mature(path[i])}
    IN  IF mature = {} THEN Root
        ELSE path[CHOOSE i \in mature : \A j \in mature : j <= i]

\* C2: predict answers with the deepest node on the path of x that has at
\* least curtail_under samples (the root when no node on the path has).
DeepestMatureAnswers ==
    last.op = "predict" => last.answer = DeepestMature(Path(nodes, last.x))

\* the pair (path[i], next) stops the walk: there is no next node, or it has
\* fewer than curtail_under samples
Qualifies(path, i) == i = Len(path) \/ ~Mature(path[i + 1])

\* C3 as stated: predict answers with the last node of the path whose child
\* on the path does not exist or has fewer than curtail_under samples.
LastQualifyingAnswers ==
    last.op = "predict" =>
        LET path == Path(nodes, last.x)
            k == IndexIn(path, last.answer)
        IN  Qualifies(path, k) /\ \A j \in (k + 1)..Len(path) : ~Qualifies(path, j)

\* C3 amended: predict answers with the first node of the path whose child on
\* the path does not exist or has fewer than curtail_under samples.
FirstQualifyingAnswers ==
    last.op = "predict" =>
        LET path == Path(nodes, last.x)
            k == IndexIn(path, last.answer)
        IN  Qualifies(path, k) /\ \A j \in 1..(k - 1) : ~Qualifies(path, j)

\* C3 witness: a path of three nodes on which the walk passed the root and
\* stopped at the inner Branch, above the leaf
AnsweredAtInnerBranch ==
    /\ last.op = "predict"
    /\ LET path == Path(nodes, last.x)
       IN  Len(path) = 3 /\ last.answer = path[2]

\* C4: a predict call returns what the next predict call on the same x
\* returns: the result just returned is the result predict computes on the
\* tree the call left behind.
IdempotentPrediction ==
    last.op = "predict" =>
        /\ last.result = PredictProbaOne(self, nodes, last.x)
        /\ last.answer = AnswerNode(self, nodes, last.x)

\* C4 witness: the second of two consecutive predict calls on the same x, on
\* a tree that has split, returning a non-empty result
RepeatedPrediction ==
    /\ last.op = "predict"
    /\ last.again
    /\ nodes[Root].kind = "Branch"
    /\ DOMAIN last.result # {}

\* the node carries what predict_proba_one reads from a node
Answerable(node) == {"target_dist", "n_samples"} \subseteq DOMAIN node

ProbAt(r, c) == IF c \in DOMAIN r THEN r[c] ELSE Zero

ProbSum(r) == FAdd(ProbAt(r, "a"), ProbAt(r, "b"))

Returned(t) == readers[t].pc = "done" /\ readers[t].at = nfit

\* every returned call returned what the call alone returns on this tree
ReadersAgree ==
    \A t \in Threads :
        Returned(t) =>
            /\ readers[t].node = AnswerNode(self, nodes, readers[t].x)
            /\ readers[t].result = PredictProbaOne(self, nodes, readers[t].x)

\* C18: predict_proba_one is read-only.  Every step that is not a fit_one (a
\* call, a loop iteration or the return of predict_proba_one in any thread,
\* a debug_one) leaves the hyperparameters and every node of the tree as
\* they were, and however the calls of the threads interleave while no
\* fit_one runs, each returns the result the call alone would return.
PredictReadOnly ==
    []ReadersAgree /\ [][nfit' = nfit => UNCHANGED <<params, self, nodes>>]_vars

\* C18 witness: two calls that ran beside each other on a split tree have
\* both returned, for different x and with different results
InterleavedReaders ==
    /\ nodes[Root].kind = "Branch"
    /\ \A t \in Threads : Returned(t) /\ readers[t].overlapped
    /\ readers["t1"].x # readers["t2"].x
    /\ readers["t1"].result # readers["t2"].result
    /\ DOMAIN readers["t1"].result # {}

-----------------------------------------------------------------------------
(* Properties of the tree's growth *)

RECURSIVE PosDepth(_)
PosDepth(p) == IF p = Root THEN 0 ELSE 1 + PosDepth(p \div 2)

Leaves == {p \in DOMAIN nodes : nodes[p].kind = "Leaf"}

\* C5 as stated: no Leaf is at a depth greater than max_depth, whatever
\* max_depth the constructor was given.
DepthBoundAnyMaxDepth ==
    \A p \in Leaves : nodes[p].depth <= params.max_depth

\* C5 amended: no Leaf is at a depth greater than max(max_depth, 0), and the
\* depth a Leaf records is its distance from the root.
DepthBound ==
    \A p \in Leaves :
        /\ nodes[p].depth <= (IF params.max_depth < 0 THEN 0 ELSE params.max_depth)
        /\ nodes[p].depth = PosDepth(p)

\* C5 witness: a Leaf at depth max_depth >= 1 that has seen two distinct
\* values and patience samples, and was never allowed a split attempt
LeafHeldAtMaxDepth ==
    \E p \in Leaves :
        /\ nodes[p].depth = params.max_depth
        /\ nodes[p].depth >= 1
        /\ nodes[p].n_samples >= params.patience
        /\ nodes[p].last_attempt = 0
        /\ \E k \in 1..Len(nodes[p].split_enums) :
               Len(nodes[p].split_enums[k].enum.bins) >= 2

-----------------------------------------------------------------------------
(* Properties of the split decision *)

\* the last call was a fit_one that replaced the routed Leaf by a Branch
SplitNow == last.op = "fit" /\ last.split

\* the Hoeffding bound (squared) of the hyperparameters the tree was created
\* with, at n samples
EpsSq(n) == Frac(params.confidence[1], params.confidence[2] * 2 * n)

\* (G1 - G2) > epsilon or epsilon < tie_threshold, at n samples
BoundTest(G1, G2, n) ==
    \/ ExceedsBound(FSub(G1, G2), EpsSq(n))
    \/ BoundUnder(EpsSq(n), params.tie_threshold)

\* each projected child of the candidate has min_child_samples samples
ChildrenSuffice(best) ==
    /\ Total(best.left) >= params.min_child_samples
    /\ Total(best.right) >= params.min_child_samples

\* C6: whenever fit replaces a Leaf by a Branch, the split attempt saw
\* (G1 - G2) > epsilon or epsilon < tie_threshold, with G1 the gain of the
\* winning candidate on the leaf's distribution, G2 = 0 when it was the only
\* candidate and epsilon the Hoeffding bound at the leaf's sample count, and
\* both projected children of the winner had at least min_child_samples.
SplitSoundness ==
    SplitNow =>
        LET att == last.attempt
            branch == nodes[last.leaf]
        IN  /\ att.candidates >= 1
            /\ branch.split = att.best.split
            /\ att.G1 = Gain(branch.target_dist, att.best.left, att.best.right)
            /\ att.candidates < 2 => att.G2 = Zero
            /\ FLeq(att.G2, att.G1)
            /\ BoundTest(att.G1, att.G2, branch.n_samples)
            /\ ChildrenSuffice(att.best)

\* C6 witness: a split between two candidates that the Hoeffding test alone
\* authorized, under a floor of two samples per child
SplitOnHoeffdingTest ==
    /\ SplitNow
    /\ last.attempt.candidates = 2
    /\ params.min_child_samples >= 2
    /\ ExceedsBound(FSub(last.attempt.G1, last.attempt.G2),
                    EpsSq(nodes[last.leaf].n_samples))
    /\ ~BoundUnder(EpsSq(nodes[last.leaf].n_samples), params.tie_threshold)

\* C15: when fit_one splits the Leaf at depth d in some slot, that slot holds
\* a Branch afterwards (the root slot when the Leaf was the root, else the
\* same child slot of the same parent Branch), and the Branch has two new
\* children, Leaves at depth d + 1 with an empty target distribution, no
\* samples, no split attempt and no enumerators, whatever the old Leaf held.
SplitEffect ==
    [][SplitNow' =>
          LET p == last'.leaf
              old == nodes[p]
          IN  /\ p \in DOMAIN nodes
              /\ old.kind = "Leaf"
              /\ nodes'[p].kind = "Branch"
              /\ nodes'[p].depth = old.depth
              /\ nodes'[p].split = last'.attempt.best.split
              /\ {Left(p), Right(p)} \cap DOMAIN nodes = {}
              /\ DOMAIN nodes' = DOMAIN nodes \cup {Left(p), Right(p)}
              /\ \A c \in {Left(p), Right(p)} :
                     /\ nodes'[c].kind = "Leaf"
                     /\ nodes'[c].depth = old.depth + 1
                     /\ nodes'[c].target_dist = EmptyDist
                     /\ nodes'[c].n_samples = 0
                     /\ nodes'[c].last_attempt = 0
                     /\ nodes'[c].split_enums = << >>
              /\ Len(old.split_enums) > 0
              /\ p # Root => nodes'[p \div 2] = nodes[p \div 2]]_vars

\* C15 witness: the split of a Leaf at depth 1 that held samples of both
\* labels, in a child slot of the root Branch
SplitBelowRoot ==
    /\ SplitNow
    /\ last.leaf \in {Left(Root), Right(Root)}
    /\ nodes[Root].kind = "Branch"
    /\ Observed(nodes[last.leaf].target_dist) = Labels
    /\ nodes[Left(last.leaf)].n_samples = 0

\* C16: fit_one(x, y) routes x through the predicates of the Branches to one
\* Leaf and counts the label there, the Leaf staying a Leaf or becoming a
\* Branch; every other Leaf is afterwards exactly as it was (target
\* distribution, sample count, last-attempt count, enumerators), and every
\* Branch is still a Branch with the split it had.
FitFrame ==
    [][last'.op = "fit" =>
          LET p == last'.leaf
          IN  /\ p = LeafOf(Path(nodes, last'.x))
              /\ nodes[p].kind = "Leaf"
              /\ nodes'[p].target_dist = DistUpdate(nodes[p].target_dist, last'.y)
              /\ \A q \in DOMAIN nodes \ {p} :
                     nodes[q].kind = "Leaf" => nodes'[q] = nodes[q]
              /\ \A q \in DOMAIN nodes :
                     nodes[q].kind = "Branch" =>
                         /\ nodes'[q].kind = "Branch"
                         /\ nodes'[q].split = nodes[q].split]_vars

\* C16 witness: a fit_one routed through two Branches to a Leaf at depth 2,
\* beside another Leaf that holds samples
FitBesideOtherLeaves ==
    /\ last.op = "fit"
    /\ ~last.split
    /\ PosDepth(last.leaf) = 2
    /\ \E q \in Leaves \ {last.leaf} : nodes[q].n_samples > 0

\* a strict binary tree with the single root self.root: every other node is
\* a child of exactly one Branch, a Branch has two children and a Leaf none,
\* and the depth a node records is its distance from the root
Shape ==
    /\ Root \in DOMAIN nodes
    /\ \A p \in DOMAIN nodes :
           /\ p >= Root
           /\ nodes[p].depth = PosDepth(p)
           /\ p # Root => (p \div 2) \in DOMAIN nodes /\ nodes[p \div 2].kind = "Branch"
           /\ nodes[p].kind = "Branch" => {Left(p), Right(p)} \subseteq DOMAIN nodes
           /\ nodes[p].kind = "Leaf" => {Left(p), Right(p)} \cap DOMAIN nodes = {}

\* every node stays, and a Branch stays a Branch with the split it has
Grows ==
    /\ DOMAIN nodes \subseteq DOMAIN nodes'
    /\ Cardinality(DOMAIN nodes') >= Cardinality(DOMAIN nodes)
    /\ \A p \in DOMAIN nodes :
           nodes[p].kind = "Branch" =>
               /\ nodes'[p].kind = "Branch"
               /\ nodes'[p].split = nodes[p].split

\* C17: over every sequence of fit_one and predict_proba_one calls the tree
\* is a strict binary tree with one root, and each call keeps every node in
\* its place, a Branch staying the same Branch with the same split: the only
\* structural change is a Leaf becoming a Branch, and the node count never
\* decreases.
StructureOnlyGrows == Shape /\ [][Shape' /\ Grows]_vars

\* C17 witness: a tree of two Branches and three Leaves, just fitted at the
\* Leaf beside the lower Branch without a change of structure
GrownTreeFitted ==
    /\ last.op = "fit"
    /\ ~last.split
    /\ Cardinality(DOMAIN nodes) = 5
    /\ PosDepth(last.leaf) = 1
    /\ nodes[last.leaf].kind = "Leaf"

\* the last call was a fit_one in which the routed Leaf evaluated a split
AttemptNow == last.op = "fit" /\ last.attempt.attempted

\* C14: a Leaf evaluates a split only on an update that brings its sample
\* count to at least patience above its last-attempt count, and then records
\* the sample count as its last-attempt count; an update without an
\* evaluation leaves the last-attempt count alone.  Hence the attempts of a
\* Leaf are at least patience samples apart, and every Branch replaced a Leaf
\* that had counted at least patience samples.
PatienceGating ==
    [][/\ AttemptNow' =>
            LET before == nodes[last'.leaf]
                after == nodes'[last'.leaf]
            IN  /\ before.kind = "Leaf"
                /\ after.n_samples = before.n_samples + 1
                /\ after.n_samples - before.last_attempt >= params.patience
                /\ after.last_attempt = after.n_samples
                /\ last'.attempt.n = after.n_samples
       /\ (last'.op = "fit" /\ ~last'.attempt.attempted) =>
            /\ ~last'.split
            /\ nodes'[last'.leaf].last_attempt = nodes[last'.leaf].last_attempt
       /\ \A p \in DOMAIN nodes' :
            nodes'[p].kind = "Branch" => nodes'[p].n_samples >= params.patience]_vars

\* C14 witness: under a patience of 2, the second evaluation of a Leaf, at
\* its fourth sample, the first at its second sample having split nothing
SecondAttemptAfterPatience ==
    /\ AttemptNow
    /\ params.patience = 2
    /\ last.attempt.n = 4
    /\ last.attempt.candidates >= 1
    /\ nodes[last.leaf].depth = 0

\* the root Leaf evaluated a split with epsilon under tie_threshold and had
\* no candidate that meets min_split_gain and min_child_samples
RootAttemptIneligible ==
    /\ AttemptNow
    /\ last.leaf = Root
    /\ BoundUnder(EpsSq(last.attempt.n), params.tie_threshold)
    /\ ~(/\ last.attempt.candidates >= 1
         /\ FLeq(params.min_split_gain, last.attempt.G1)
         /\ ChildrenSuffice(last.attempt.best))

\* C19: with tie_threshold > 0 and max_depth > 0, a root Leaf that keeps
\* receiving examples, and whose best candidate meets min_split_gain and
\* min_child_samples at every split attempt, eventually splits, equal top
\* gains or not: either the root becomes a Branch, or at some attempt made
\* once epsilon is under tie_threshold it had no eligible candidate.
NoStallingOnTies ==
    <>(nodes[Root].kind = "Branch" \/ RootAttemptIneligible)

\* C19 witness: the root split on two candidates of equal gain, by the tie
\* rule alone, after an attempt at which epsilon was not yet under
\* tie_threshold
SplitOnTie ==
    /\ SplitNow
    /\ last.leaf = Root
    /\ last.attempt.candidates = 2
    /\ last.attempt.G1 = last.attempt.G2
    /\ BoundUnder(EpsSq(last.attempt.n), params.tie_threshold)
    /\ ~BoundUnder(EpsSq(last.attempt.n - 1), params.tie_threshold)
    /\ last.attempt.n >= 3

\* no partition of two labels gains more than this
MaxGiniGain == <<1, 2>>

\* C7: a split never occurs when the best gain G1 is below min_split_gain,
\* and with min_split_gain above every achievable gain the root stays a Leaf.
MinimumGainGate ==
    /\ SplitNow =>
           FLeq(params.min_split_gain,
                Gain(nodes[last.leaf].target_dist,
                     last.attempt.best.left, last.attempt.best.right))
    /\ FLess(MaxGiniGain, params.min_split_gain) => nodes[Root].kind = "Leaf"

\* C7 witness: a split attempt whose winner passed the bound test and the
\* child floor, had a gain below min_split_gain, and did not split
GainGateHeldSplit ==
    /\ last.op = "fit"
    /\ last.attempt.attempted
    /\ last.attempt.candidates >= 1
    /\ BoundTest(last.attempt.G1, last.attempt.G2, last.attempt.n)
    /\ ChildrenSuffice(last.attempt.best)
    /\ FLess(Zero, last.attempt.G1)
    /\ FLess(last.attempt.G1, params.min_split_gain)
    /\ ~last.split
    /\ nodes[last.leaf].kind = "Leaf"

-----------------------------------------------------------------------------
(* Properties of the enumerator selection and of a failing fit_one *)

Supported == {"int", "float", "bool", "str"}

\* C8: a numeric value gets the Histogram enumerator, a textual or boolean
\* value the Categorical enumerator, and a value of any other type is
\* rejected; in particular True and False get the Categorical enumerator.
EnumeratorByValueType ==
    last.op = "fit" =>
        /\ \A i \in 1..Len(last.created) :
               /\ last.created[i].value.t \in {"int", "float"}
                      => last.created[i].kind = "Hist"
               /\ last.created[i].value.t \in {"str", "bool"}
                      => last.created[i].kind = "Categorical"
               /\ last.created[i].value.t \in Supported
        /\ last.error = "ValueError" => last.bad.t \notin Supported

\* the node is as it was, its enumerators apart
SameButEnums(before, after) == after = [before EXCEPT !.split_enums = after.split_enums]

EnumOf(node, f) ==
    LET at == {k \in 1..Len(node.split_enums) : node.split_enums[k].feature = f}
    IN  IF at = {} THEN << >> ELSE <<node.split_enums[CHOOSE k \in at : TRUE].enum>>

\* C9: a fit_one that fails with the unsupported-type error leaves the tree
\* as it was: the same nodes, each with the target distribution, sample
\* count and last-attempt count it had, and the enumerators it had except
\* those of features of that example.
FailedFitKeepsTree ==
    [][(last'.op = "fit" /\ last'.error = "ValueError") =>
          /\ DOMAIN nodes' = DOMAIN nodes
          /\ \A p \in DOMAIN nodes :
                 IF p = last'.leaf
                 THEN /\ SameButEnums(nodes[p], nodes'[p])
                      /\ \A f \in {"f", "g"} :
                             ~Has(last'.x, f) => EnumOf(nodes'[p], f) = EnumOf(nodes[p], f)
                 ELSE nodes'[p] = nodes[p]]_vars

\* C10: a fit_one that supplies, for a feature the routed leaf has an
\* enumerator for, a value of another kind than the enumerator's fails with
\* the unsupported-type error naming that value.
TypeDriftRejected ==
    (last.op = "fit" /\ last.drifted) =>
        (last.error = "ValueError" /\ last.bad.t # "none")

\* the observations the buckets of a histogram hold
Held(h) == LET All(i) == TRUE IN Total(SumCounts(h.bins, All))

\* C13: every histogram enumerator of the tree has at most max_bins buckets
\* after any number of updates; the buckets are disjoint value ranges in
\* increasing order, and merging loses no observation: together they hold
\* every sample the leaf has counted.
HistogramBound ==
    \A p \in Leaves :
        \A k \in 1..Len(nodes[p].split_enums) :
            LET h == nodes[p].split_enums[k].enum
            IN  h.kind = "Hist" =>
                    /\ Len(h.bins) <= params.max_bins
                    /\ \A i \in 1..Len(h.bins) : h.bins[i].left <= h.bins[i].right
                    /\ \A i \in 1..(Len(h.bins) - 1) :
                           h.bins[i].right < h.bins[i + 1].left
                    /\ Held(h) = nodes[p].n_samples

\* C13 witness: a histogram of max_bins = 2 buckets that holds four samples
\* of three or more distinct values, one bucket spanning a range
MergedHistogram ==
    /\ params.max_bins = 2
    /\ \E p \in Leaves :
           \E k \in 1..Len(nodes[p].split_enums) :
               LET h == nodes[p].split_enums[k].enum
               IN  /\ h.kind = "Hist"
                   /\ Len(h.bins) = 2
                   /\ Held(h) = 4
                   /\ \E i \in 1..2 : h.bins[i].left < h.bins[i].right

-----------------------------------------------------------------------------
(* Properties of the construction *)

\* the constraints documented for the constructor's arguments; the
\* confidence delta is in (0, 1) exactly when ln(1/delta) > 0
Valid(p) ==
    /\ p.criterion \in {"gini", "entropy"}
    /\ p.patience >= 1
    /\ p.max_bins >= 1
    /\ p.n_split_points >= 1
    /\ FLeq(Zero, p.min_split_gain)
    /\ p.min_child_samples >= 0
    /\ FLeq(Zero, p.tie_threshold)
    /\ FLess(Zero, p.confidence)

\* C11: a tree exists only for a configuration that meets the documented
\* constraints, and the construction with any other configuration failed
\* with InvalidConfiguration and created no tree.
ConstructionValidates ==
    /\ Exists => Valid(params)
    /\ ~Valid(params) => (~Exists /\ last.error = "InvalidConfiguration")

====
